---------------------------- MODULE Spec2Model ----------------------------
(***************************************************************************)
(* Model of actions/image_file_action.go: the image-file action of debos.  *)
(* One ImageFileAction object, the shared DebosContext, the argument list  *)
(* of the delegated execution, and the operating-system resources the      *)
(* action touches (backing file, loop device, file descriptor and its      *)
(* advisory lock, mount table).  Every handler is split into the steps of  *)
(* its code; the outcome of each operating-system step is an input.        *)
(***************************************************************************)
EXTENDS Integers, Sequences, FiniteSets, TLC

(***************************************************************************)
(* Bounds of the model and constants of the program.                       *)
(***************************************************************************)
\* how many times the pipeline may call Run on the action
MaxRuns == 2
\* how many times the pipeline may call Cleanup on the action
MaxCleanups == 2
\* the loop bound of the removal retry loop: for t := 0; t < 60; t++
MaxRemoveAttempts == 60

\* the filesystem types of the configuration surface ("ext4" stands for
\* "any other string")
FSTypes == {"vfat", "btrfs", "hfs", "hfsplus", "hfsx", "none", "ext4"}
\* the human-readable sizes tried; "bogus" is malformed
SizeStrings == {"1KB", "2KB", "bogus"}
\* sizes of the backing file before the preparation; -1: the file is absent,
\* 1000: the file an earlier allocation of "1KB" left
PriorFileSizes == {-1, 500, 1000, 3000}
\* the two execution modes: on the host directly, or delegated to a machine
Modes == {"direct", "delegated"}

OK == "ok"
FAIL == "fail"
Outcomes == {OK, FAIL}
\* the nil error
Nil == "nil"

(***************************************************************************)
(* Pure helpers.                                                           *)
(***************************************************************************)
\* units.FromHumanSize on the strings of SizeStrings: [err, size]
FromHumanSize(s) ==
    CASE s = "1KB" -> [err |-> Nil, size |-> 1000]
      [] s = "2KB" -> [err |-> Nil, size |-> 2000]
      [] OTHER     -> [err |-> "invalid size", size |-> -1]

\* plain concatenation, which path.Join is not
PathConcat(a, b) == a \o b
\* path.Join of two elements
PathJoin(a, b) == IF a = "" THEN b ELSE a \o "/" \o b

\* the path losetup.Attach gives the device: the lowest free slot
LoopPath == "/dev/loop0"
\* the path fakemachine's CreateImage returns
MachineImagePath == "/dev/disk/by-id/virtio-fakedisk-0"
\* the paths CreateImage may return: the machine may hold other disks already
MachineImagePaths == {MachineImagePath, "/dev/disk/by-id/virtio-fakedisk-1"}
\* losetup.Device's zero value
NoDevice == ""

\* append one event to a trace
Emit(tr, op, res) == Append(tr, <<op, res>>)
\* log.Printf: the message is recorded by its format string
Log(tr, msg) == Emit(tr, "log", msg)

\* how many times the operation op was attempted in the trace
Attempts(tr, op) == Cardinality({k \in 1..Len(tr) : tr[k][1] = op})
\* how many attempts of op ended with the result res
AttemptsWith(tr, op, res) == Cardinality({k \in 1..Len(tr) : tr[k] = <<op, res>>})

(***************************************************************************)
(* The formatting command: formatFile, a method with a VALUE receiver.     *)
(* It returns the command line it builds and the receiver copy as it is    *)
(* when the method returns; the copy dies with the call.                   *)
(***************************************************************************)
\* formatCmdline without the empty case "none": the default case takes it
formatCmdlineNoneFormatted(i) ==
    CASE i.FS = "vfat"    -> <<"mkfs.vfat", "-F32", "-n", i.FSName>>
      [] i.FS = "btrfs"   -> <<"mkfs.btrfs", "-L", i.FSName, "-f">>
      [] i.FS = "hfs"     -> <<"mkfs.hfs", "-h", "-v", i.FSName>>
      [] i.FS = "hfsplus" -> <<"mkfs.hfsplus", "-v", i.FSName>>
      [] i.FS = "hfsx"    -> <<"mkfs.hfsplus", "-s", "-v", i.FSName>>
      [] OTHER            -> <<"mkfs." \o i.FS, "-L", i.FSName>>
\* formatCmdline with the case "hfsx" fallen through to "hfsplus"
formatCmdlineHfsxAsHfsplus(i) ==
    CASE i.FS = "vfat"    -> <<"mkfs.vfat", "-F32", "-n", i.FSName>>
      [] i.FS = "btrfs"   -> <<"mkfs.btrfs", "-L", i.FSName, "-f">>
      [] i.FS = "hfs"     -> <<"mkfs.hfs", "-h", "-v", i.FSName>>
      [] i.FS \in {"hfsplus", "hfsx"} -> <<"mkfs.hfsplus", "-v", i.FSName>>
      [] i.FS = "none"    -> <<>>
      [] OTHER            -> <<"mkfs." \o i.FS, "-L", i.FSName>>
\* lines 62-80: the command line the switch on i.FS builds
formatCmdline(i) ==
    CASE i.FS = "vfat"    -> <<"mkfs.vfat", "-F32", "-n", i.FSName>>
      [] i.FS = "btrfs"   -> <<"mkfs.btrfs", "-L", i.FSName, "-f">>
      [] i.FS = "hfs"     -> <<"mkfs.hfs", "-h", "-v", i.FSName>>
      [] i.FS = "hfsplus" -> <<"mkfs.hfsplus", "-v", i.FSName>>
      [] i.FS = "hfsx"    -> <<"mkfs.hfsplus", "-s", "-v", i.FSName>>
      [] i.FS = "none"    -> <<>>
      [] OTHER            -> <<"mkfs." \o i.FS, "-L", i.FSName>>

\* the receiver copy of formatFile after its switch statement
formatReceiver(i) ==
    IF i.FS = "hfsx" THEN [i EXCEPT !.FS = "hfsplus"] ELSE i

\* formatFile(context) on the receiver copy i: the command it runs (<<>>:
\* none) and its own copy of the receiver at return
formatFile(i, ctx) ==
    LET cmd == formatCmdline(i)
    IN  [ cmdline  |-> IF Len(cmd) # 0 THEN Append(cmd, ctx.Image) ELSE <<>>,
          receiver |-> formatReceiver(i) ]

\* what the caller's receiver is after `i.formatFile(*context)` returned:
\* Go passes a value receiver by copy, the caller's i is what it was
AfterFormatCall(callerI, calleeI) == callerI

\* lines 59 and 145: what the pipeline's object is after Run called
\* formatFile: both methods have value receivers, the write of line 76 stays
\* in formatFile's copy; with pointer receivers it would reach the object
ObjectThroughPointers(object, calleeI) == [object EXCEPT !.FS = calleeI.FS]
ObjectAfterFormat(object, calleeI) == object

(***************************************************************************)
(* State.                                                                  *)
(***************************************************************************)
VARIABLES
    obj,          \* the ImageFileAction object the pipeline holds
    context,      \* the shared debos.DebosContext
    args,         \* the argument list of the delegated execution
    mode,         \* which preparation this process runs
    phase,        \* "unprepared", "ready" (preparation succeeded), "aborted"
    handler,      \* the handler being executed or executed last, "none" at start
    pc,           \* position in the handler being executed, "idle" between
    self,         \* the receiver copy `i` of a value-receiver handler
    dev,          \* Run's local dev (result of filepath.EvalSymlinks)
    err,          \* the handler's local err
    t,            \* Cleanup's loop counter
    ret,          \* what the last handler returned (Nil or an error)
    trace,        \* the steps and log lines of the current/last handler
    fileSize,     \* size of the backing file, -1 when absent
    fd,           \* Run's imageFD: "none", "open", "closed"
    lockHeld,     \* the exclusive flock on imageFD is held
    mountDepth,   \* number of live mounts at the mount directory
    mountCall,    \* arguments of the last syscall.Mount, <<>> when none
    fmtCmd,       \* the last formatting command run, <<>> when none
    loop,         \* the loop device: "none","attached","detached","removed"
    mountReached, \* the last Run got as far as the mount call
    runs,         \* number of Run calls so far
    cleanups      \* number of Cleanup calls so far

vars == << obj, context, args, mode, phase, handler, pc, self, dev, err, t, ret, trace,
           fileSize, fd, lockHeld, mountDepth, mountCall, fmtCmd, loop,
           mountReached, runs, cleanups >>

osVars  == << fileSize, fd, lockHeld, mountDepth, mountCall, fmtCmd, loop >>
locVars == << self, dev, err, t >>

\* the object as constructed from the recipe: the unexported fields are zero
NewAction(fs, sz) ==
    [ ImageName |-> "debian.img", ImageSize |-> sz, FS |-> fs,
      FSName |-> "debian", size |-> 0, loopDev |-> NoDevice,
      usingLoop |-> FALSE ]

Init ==
    /\ \E fs \in FSTypes, sz \in SizeStrings : obj = NewAction(fs, sz)
    /\ context = [ Image |-> "", ImageMntDir |-> "", Scratchdir |-> "/scratch" ]
    /\ args = << "debos" >>
    /\ mode \in Modes
    /\ phase = "unprepared"
    /\ handler = "none"
    /\ pc = "idle"
    /\ self = obj
    /\ dev = ""
    /\ err = Nil
    /\ t = 0
    /\ ret = Nil
    /\ trace = << >>
    /\ fileSize \in PriorFileSizes
    /\ fd = "none"
    /\ lockHeld = FALSE
    /\ mountDepth = 0
    /\ mountCall = << >>
    /\ fmtCmd = << >>
    /\ loop = "none"
    /\ mountReached = FALSE
    /\ runs = 0
    /\ cleanups = 0


\* a handler returns e: the trace gets the return, the pipeline gets e
Return(tr, e) == Emit(tr, "return", e)

(***************************************************************************)
(* PreNoMachine (POINTER receiver: it writes the object itself).           *)
(***************************************************************************)
\* lines 95-101: parse the size, store it, log
CallPreNoMachine ==
    /\ handler' = "PreNoMachine"
    /\ pc = "idle" /\ phase = "unprepared" /\ mode = "direct"
    /\ LET p == FromHumanSize(obj.ImageSize) IN
         IF p.err # Nil
         THEN /\ trace' = Return(<< <<"parse", FAIL>> >>, "Failed to parse image size")
              /\ ret' = "Failed to parse image size"
              /\ phase' = "aborted"
              /\ pc' = "idle"
              /\ obj' = obj
         ELSE /\ obj' = [obj EXCEPT !.size = p.size]
              /\ trace' = Log(<< <<"parse", OK>> >>, "PreNoMachine: %s, size: %d")
              /\ pc' = "pnm_open"
              /\ UNCHANGED << ret, phase >>
    /\ UNCHANGED << context, args, mode, locVars, osVars, mountReached, runs, cleanups >>

\* lines 103-106: os.OpenFile(O_WRONLY|O_CREATE): creates an absent file empty
PnmOpen ==
    /\ pc = "pnm_open"
    /\ \E o \in Outcomes :
         IF o = OK
         THEN /\ fileSize' = IF fileSize = -1 THEN 0 ELSE fileSize
              /\ trace' = Emit(trace, "openfile", OK)
              /\ pc' = "pnm_truncate"
              /\ UNCHANGED << ret, phase >>
         ELSE /\ trace' = Return(Emit(trace, "openfile", FAIL), "Couldn't open image file")
              /\ ret' = "Couldn't open image file"
              /\ phase' = "aborted"
              /\ pc' = "idle"
              /\ UNCHANGED fileSize
    /\ UNCHANGED << handler, obj, context, args, mode, locVars, fd, lockHeld, mountDepth,
                    mountCall, fmtCmd, loop, mountReached, runs, cleanups >>

\* line 108: the size of the file after img.Truncate(size): cut or extended
TruncateOnlyExtends(cur, size) == IF cur > size THEN cur ELSE size
Truncate(cur, size) == size

\* lines 108-113: img.Truncate(i.size), then close
PnmTruncate ==
    /\ pc = "pnm_truncate"
    /\ \E o \in Outcomes :
         IF o = OK
         THEN /\ fileSize' = Truncate(fileSize, obj.size)
              /\ trace' = Emit(trace, "truncate", OK)
              /\ pc' = "pnm_attach"
              /\ UNCHANGED << ret, phase >>
         ELSE /\ trace' = Return(Emit(trace, "truncate", FAIL), "Couldn't resize image file")
              /\ ret' = "Couldn't resize image file"
              /\ phase' = "aborted"
              /\ pc' = "idle"
              /\ UNCHANGED fileSize
    /\ UNCHANGED << handler, obj, context, args, mode, locVars, fd, lockHeld, mountDepth,
                    mountCall, fmtCmd, loop, mountReached, runs, cleanups >>

\* lines 116-120: i.usingLoop = true is reached only past the error check
OwnsBeforeCheck(o) == TRUE
AttachOwns(o) == o = OK

\* lines 115-122: losetup.Attach; on success record the device and own it
PnmAttach ==
    /\ pc = "pnm_attach"
    /\ \E o \in Outcomes :
         IF o = OK
         THEN /\ obj' = [obj EXCEPT !.loopDev = LoopPath,
                                    !.usingLoop = IF AttachOwns(o) THEN TRUE ELSE @]
              /\ context' = [context EXCEPT !.Image = LoopPath]
              /\ loop' = "attached"
              /\ trace' = Return(Emit(trace, "attach", OK), Nil)
              /\ ret' = Nil
              /\ phase' = "ready"
         ELSE /\ obj' = [obj EXCEPT !.loopDev = NoDevice,
                                    !.usingLoop = IF AttachOwns(o) THEN TRUE ELSE @]
              /\ trace' = Return(Emit(trace, "attach", FAIL),
                                 "Failed to setup loop device - need sudo?")
              /\ ret' = "Failed to setup loop device - need sudo?"
              /\ phase' = "aborted"
              /\ UNCHANGED << context, loop >>
    /\ pc' = "idle"
    /\ UNCHANGED << handler, args, mode, locVars, fileSize, fd, lockHeld, mountDepth,
                    mountCall, fmtCmd, mountReached, runs, cleanups >>

(***************************************************************************)
(* PreMachine (VALUE receiver: `i` is a copy, self).                       *)
(***************************************************************************)
\* lines 126-133: parse the size, store it in the copy, log twice
CallPreMachine ==
    /\ handler' = "PreMachine"
    /\ pc = "idle" /\ phase = "unprepared" /\ mode = "delegated"
    /\ LET p == FromHumanSize(obj.ImageSize) IN
         IF p.err # Nil
         THEN /\ trace' = Return(<< <<"parse", FAIL>> >>, "Failed to parse image size")
              /\ ret' = "Failed to parse image size"
              /\ phase' = "aborted"
              /\ pc' = "idle"
              /\ self' = obj
         ELSE /\ self' = [obj EXCEPT !.size = p.size]
              /\ trace' = Log(Log(<< <<"parse", OK>> >>, "context.Rootdir: %s"),
                              "PreMachine: %s, size: %d")
              /\ pc' = "pm_create"
              /\ UNCHANGED << ret, phase >>
    /\ UNCHANGED << obj, context, args, mode, dev, err, t, osVars, mountReached,
                    runs, cleanups >>

\* line 141: *args = append(*args, "--internal-image", image)
AppendImageOnly(a, image) == Append(a, image)
AppendInternalImage(a, image) == a \o << "--internal-image", image >>

\* lines 135-142: m.CreateImage; on success record the path and pass it on
PmCreate ==
    /\ pc = "pm_create"
    /\ \E o \in Outcomes, image \in MachineImagePaths :
         IF o = OK
         THEN /\ context' = [context EXCEPT !.Image = image]
              /\ args' = AppendInternalImage(args, image)
              /\ trace' = Return(Emit(Emit(trace, "createimage", OK), "image", image), Nil)
              /\ ret' = Nil
              /\ phase' = "ready"
         ELSE /\ trace' = Return(Emit(trace, "createimage", FAIL), "CreateImage failed")
              /\ ret' = "CreateImage failed"
              /\ phase' = "aborted"
              /\ UNCHANGED << context, args >>
    /\ pc' = "idle"
    /\ UNCHANGED << handler, obj, mode, locVars, osVars, mountReached, runs, cleanups >>

(***************************************************************************)
(* Run (VALUE receiver: `i` is a copy, self).                              *)
(***************************************************************************)
\* filepath.EvalSymlinks: the by-id path of the machine's disk is a symbolic
\* link to the disk, a loop device path is no link
EvalSymlinks(p) ==
    CASE p = MachineImagePath    -> "/dev/vda"
      [] p \in MachineImagePaths -> "/dev/vdb"
      [] OTHER                   -> p

\* line 173: the filesystem type Run hands to syscall.Mount
MountFSType(i) == i.FS

\* where Run goes after a checked step (open excepted): on to the next step,
\* or out through the deferred close
AfterStepLax(o, next) == next
AfterStep(o, next) == IF o = OK THEN next ELSE "run_defer"

\* line 158, the deferred imageFD.Close(): the state of the descriptor after
CloseLeaked(f) == f
CloseOnReturn(f) == "closed"

\* the kernel mounts only a device it is given, on a directory that exists
MountCanSucceed(d, tr) == d # "" /\ AttemptsWith(tr, "mkdir", OK) = 1

\* lines 146-147: LogStart, log the device
CallRun ==
    /\ handler' = "Run"
    /\ pc = "idle" /\ phase = "ready" /\ runs < MaxRuns
    /\ self' = obj
    /\ dev' = ""
    /\ err' = Nil
    /\ trace' = Log(<< >>, "Run: ")
    /\ fd' = "none"
    /\ mountReached' = FALSE
    /\ runs' = runs + 1
    /\ pc' = "run_open"
    /\ UNCHANGED << obj, context, args, mode, phase, t, ret, fileSize, lockHeld,
                    mountDepth, mountCall, fmtCmd, loop, cleanups >>

\* lines 151-158: os.Open; a failure returns before the close is deferred
RunOpen ==
    /\ pc = "run_open"
    /\ \E o \in Outcomes :
         IF o = OK
         THEN /\ fd' = "open"
              /\ trace' = Emit(trace, "open", OK)
              /\ pc' = "run_flock"
              /\ UNCHANGED << err, ret >>
         ELSE /\ err' = "open failed"
              /\ trace' = Return(Emit(trace, "open", FAIL), "open failed")
              /\ ret' = "open failed"
              /\ pc' = "idle"
              /\ UNCHANGED fd
    /\ UNCHANGED << handler, obj, context, args, mode, phase, self, dev, t, fileSize,
                    lockHeld, mountDepth, mountCall, fmtCmd, loop, mountReached,
                    runs, cleanups >>

\* lines 160-163: syscall.Flock(LOCK_EX)
RunFlock ==
    /\ pc = "run_flock"
    /\ \E o \in Outcomes :
         /\ lockHeld' = (o = OK)
         /\ err' = IF o = OK THEN Nil ELSE "flock failed"
         /\ trace' = Emit(trace, "flock", o)
         /\ pc' = AfterStep(o, "run_format")
    /\ UNCHANGED << handler, obj, context, args, mode, phase, self, dev, t, ret, fileSize,
                    fd, mountDepth, mountCall, fmtCmd, loop, mountReached, runs,
                    cleanups >>

\* lines 165-168: i.formatFile(*context); the command runs unless there is none
RunFormat ==
    /\ pc = "run_format"
    /\ LET r == formatFile(self, context) IN
         /\ self' = AfterFormatCall(self, r.receiver)
         /\ obj' = ObjectAfterFormat(obj, r.receiver)
         /\ IF r.cmdline = << >>
            THEN /\ err' = Nil
                 /\ pc' = "run_evalsymlinks"
                 /\ UNCHANGED << trace, fmtCmd >>
            ELSE \E o \in Outcomes :
                 /\ fmtCmd' = r.cmdline
                 /\ err' = IF o = OK THEN Nil ELSE "format failed"
                 /\ trace' = Emit(trace, "format", o)
                 /\ pc' = AfterStep(o, "run_evalsymlinks")
    /\ UNCHANGED << handler, context, args, mode, phase, dev, t, ret, fileSize, fd,
                    lockHeld, mountDepth, mountCall, loop, mountReached, runs,
                    cleanups >>

\* line 170: dev, _ := filepath.EvalSymlinks(context.Image); the error is
\* dropped, dev is "" when the call failed
RunEvalSymlinks ==
    /\ pc = "run_evalsymlinks"
    /\ \E o \in Outcomes :
         /\ dev' = IF o = OK THEN EvalSymlinks(context.Image) ELSE ""
         /\ trace' = Emit(trace, "evalsymlinks", o)
    /\ pc' = "run_mkdir"
    /\ UNCHANGED << handler, obj, context, args, mode, phase, self, err, t, ret, osVars,
                    mountReached, runs, cleanups >>

\* lines 171-172: record the mount directory; _ = os.MkdirAll(...), the error
\* is dropped
RunMkdir ==
    /\ pc = "run_mkdir"
    /\ context' = [context EXCEPT !.ImageMntDir = PathJoin(context.Scratchdir, "mnt")]
    /\ \E o \in Outcomes : trace' = Emit(trace, "mkdir", o)
    /\ pc' = "run_mount"
    /\ UNCHANGED << handler, obj, args, mode, phase, locVars, ret, osVars, mountReached,
                    runs, cleanups >>

\* lines 173-178: syscall.Mount(dev, context.ImageMntDir, i.FS, 0, "")
RunMount ==
    /\ pc = "run_mount"
    /\ mountReached' = TRUE
    /\ mountCall' = << dev, context.ImageMntDir, MountFSType(self) >>
    /\ \E o \in Outcomes :
         /\ o = OK => MountCanSucceed(dev, trace)
         /\ mountDepth' = IF o = OK THEN mountDepth + 1 ELSE mountDepth
         /\ err' = IF o = OK THEN Nil ELSE "%s mount failed: %v"
         /\ trace' = Emit(trace, "mount", o)
    /\ pc' = "run_defer"
    /\ UNCHANGED << handler, obj, context, args, mode, phase, self, dev, t, ret, fileSize,
                    fd, lockHeld, fmtCmd, loop, runs, cleanups >>

\* line 158 at return: the deferred close, which drops the lock; Run returns
RunDefer ==
    /\ pc = "run_defer"
    /\ fd' = CloseOnReturn(fd)
    /\ lockHeld' = IF fd' = "closed" THEN FALSE ELSE lockHeld
    /\ trace' = Return(IF fd' = "closed" THEN Emit(trace, "close", OK) ELSE trace, err)
    /\ ret' = err
    /\ pc' = "idle"
    /\ UNCHANGED << handler, obj, context, args, mode, phase, locVars, fileSize, mountDepth,
                    mountCall, fmtCmd, loop, mountReached, runs, cleanups >>

(***************************************************************************)
(* Cleanup (VALUE receiver: `i` is a copy, self).                          *)
(***************************************************************************)
\* line 182: the first statement of Cleanup
CleanupStartSkipped == "cl_detach"
CleanupStart == "cl_unmount"

\* line 189: if i.usingLoop
OwnsLoopAlways(i) == TRUE
OwnsLoopInverted(i) == ~i.usingLoop
OwnsLoop(i) == i.usingLoop

\* line 196: the loop condition t < 60
RemoveLoopCondOffByOne(k) == k <= MaxRemoveAttempts
RemoveLoopCond(k) == k < MaxRemoveAttempts

\* lines 198-200: if err == nil { break }
BreaksNever(e) == FALSE
Breaks(e) == e = Nil

\* lines 184-185: the two log lines of a failed unmount
UnmountFailureLogsOne(tr) ==
    Log(tr, "Warning: Failed to get unmount %s: %s")
UnmountFailureLogs(tr) ==
    Log(Log(tr, "Warning: Failed to get unmount %s: %s"),
        "Unmount failure can cause images being incomplete!")

\* lines 186, 193, 207: return err
CleanupSwallows(e) == Nil
CleanupError(e) == e

\* the pipeline defers the Cleanup of an action once it has called its Run,
\* whatever Run returned
CallCleanup ==
    /\ handler' = "Cleanup"
    /\ pc = "idle" /\ phase = "ready" /\ runs >= 1 /\ cleanups < MaxCleanups
    /\ self' = obj
    /\ err' = Nil
    /\ t' = 0
    /\ trace' = << >>
    /\ cleanups' = cleanups + 1
    /\ pc' = CleanupStart
    /\ UNCHANGED << obj, context, args, mode, phase, dev, ret, osVars,
                    mountReached, runs >>

\* lines 182-187: syscall.Unmount(context.ImageMntDir, 0)
ClUnmount ==
    /\ pc = "cl_unmount"
    /\ \E o \in Outcomes :
         /\ o = OK => mountDepth > 0
         /\ IF o = OK
            THEN /\ mountDepth' = mountDepth - 1
                 /\ err' = Nil
                 /\ IF OwnsLoop(self)
                    THEN /\ trace' = Emit(trace, "unmount", OK)
                         /\ pc' = "cl_detach"
                         /\ UNCHANGED ret
                    ELSE /\ trace' = Return(Emit(trace, "unmount", OK), Nil)
                         /\ ret' = Nil
                         /\ pc' = "idle"
            ELSE /\ err' = "unmount failed"
                 /\ trace' = Return(UnmountFailureLogs(Emit(trace, "unmount", FAIL)),
                                    CleanupError("unmount failed"))
                 /\ ret' = CleanupError("unmount failed")
                 /\ pc' = "idle"
                 /\ UNCHANGED mountDepth
    /\ UNCHANGED << handler, obj, context, args, mode, phase, self, dev, t, fileSize, fd,
                    lockHeld, mountCall, fmtCmd, loop, mountReached, runs, cleanups >>

\* lines 191-194: if err != nil { log; return err }
DetachFailureIgnored(o) == FALSE
DetachAborts(o) == o # OK

\* lines 190-194: i.loopDev.Detach()
ClDetach ==
    /\ pc = "cl_detach"
    /\ \E o \in Outcomes :
         /\ o = OK => loop = "attached"
         /\ loop' = IF o = OK THEN "detached" ELSE loop
         /\ IF ~DetachAborts(o)
            THEN /\ err' = IF o = OK THEN Nil ELSE "detach failed"
                 /\ t' = 0
                 /\ trace' = Emit(trace, "detach", o)
                 /\ pc' = IF RemoveLoopCond(0) THEN "cl_remove" ELSE "cl_after"
                 /\ UNCHANGED ret
            ELSE /\ err' = "detach failed"
                 /\ trace' = Return(Log(Emit(trace, "detach", FAIL),
                                        "WARNING: Failed to detach loop device: %s"),
                                    CleanupError("detach failed"))
                 /\ ret' = CleanupError("detach failed")
                 /\ pc' = "idle"
                 /\ UNCHANGED t
    /\ UNCHANGED << handler, obj, context, args, mode, phase, self, dev, fileSize, fd,
                    lockHeld, mountDepth, mountCall, fmtCmd, mountReached, runs,
                    cleanups >>

\* lines 196-203: one iteration of the removal loop
ClRemove ==
    /\ pc = "cl_remove"
    /\ \E o \in Outcomes :
         /\ o = OK => loop = "detached"
         /\ LET e == IF o = OK THEN Nil ELSE "remove failed" IN
              /\ err' = e
              /\ IF Breaks(e)
                 THEN /\ loop' = IF o = OK THEN "removed" ELSE loop
                      /\ trace' = Emit(trace, "remove", o)
                      /\ pc' = "cl_after"
                      /\ UNCHANGED t
                 ELSE /\ loop' = IF o = OK THEN "removed" ELSE loop
                      /\ trace' = Emit(Log(Emit(trace, "remove", o),
                                           "Loop dev couldn't remove %s, waiting"),
                                       "sleep", "1s")
                      /\ t' = t + 1
                      /\ pc' = IF RemoveLoopCond(t + 1) THEN "cl_remove" ELSE "cl_after"
    /\ UNCHANGED << handler, obj, context, args, mode, phase, self, dev, ret, fileSize, fd,
                    lockHeld, mountDepth, mountCall, fmtCmd, mountReached, runs,
                    cleanups >>

\* lines 205-215: report an exhausted removal, or return nil
ClAfter ==
    /\ pc = "cl_after"
    /\ IF err # Nil
       THEN /\ trace' = Return(Log(trace, "WARNING: Failed to remove loop device: %s"),
                               CleanupError(err))
            /\ ret' = CleanupError(err)
       ELSE /\ trace' = Return(trace, Nil)
            /\ ret' = Nil
    /\ pc' = "idle"
    /\ UNCHANGED << handler, obj, context, args, mode, phase, locVars, osVars, mountReached,
                    runs, cleanups >>

(***************************************************************************)
(* The specification.                                                      *)
(***************************************************************************)
Next ==
    \/ CallPreNoMachine \/ PnmOpen \/ PnmTruncate \/ PnmAttach
    \/ CallPreMachine \/ PmCreate
    \/ CallRun \/ RunOpen \/ RunFlock \/ RunFormat \/ RunEvalSymlinks
    \/ RunMkdir \/ RunMount \/ RunDefer
    \/ CallCleanup \/ ClUnmount \/ ClDetach \/ ClRemove \/ ClAfter

Spec == Init /\ [][Next]_vars

\* the handlers run to completion: a started handler takes its next step
FairSpec == Spec /\ WF_vars(Next)

(***************************************************************************)
(* Vocabulary of the properties.                                           *)
(***************************************************************************)
\* the last handler was Run / Cleanup and it has returned
RunReturned == handler = "Run" /\ pc = "idle"
CleanupReturned == handler = "Cleanup" /\ pc = "idle"
InCleanup == handler = "Cleanup"
InRun == handler = "Run"

\* positions of the trace where op was attempted
Positions(tr, op) == {k \in 1..Len(tr) : tr[k][1] = op}
\* op was attempted and the attempt succeeded / failed
Succeeded(tr, op) == AttemptsWith(tr, op, OK) >= 1
Failed(tr, op) == AttemptsWith(tr, op, FAIL) >= 1
\* the log line that says the image may be incomplete
IncompleteWarning == "Unmount failure can cause images being incomplete!"
Logged(tr, msg) == \E k \in 1..Len(tr) : tr[k] = <<"log", msg>>

(***************************************************************************)
(* C1.  When the configured filesystem type is hfsx and Run reaches the    *)
(* mount call, the filesystem type passed to the mount call is hfsplus.    *)
(* The code hands the mount Run's own copy of the receiver, which the      *)
(* formatting method (a value receiver) cannot change: the mount gets hfsx.*)
(***************************************************************************)
C1_HfsxMountedAsHfsplus ==
    (InRun /\ mountReached /\ obj.FS = "hfsx") => mountCall[3] = "hfsplus"

(***************************************************************************)
(* C2.  As claimed: in every execution of Cleanup the detach is attempted  *)
(* exactly once if usingLoop is true and not at all otherwise, for every   *)
(* outcome of the steps before it.  Refuted: a failed unmount returns      *)
(* before the detach.                                                      *)
(***************************************************************************)
C2_DetachOnceIffOwned ==
    CleanupReturned =>
        Attempts(trace, "detach") = (IF self.usingLoop THEN 1 ELSE 0)

\* C2, amended: in every execution of Cleanup the detach is attempted
\* exactly once if usingLoop is true and the unmount succeeded, and not at
\* all otherwise.
C2_DetachOnceIffOwnedAndUnmounted ==
    /\ InCleanup => Attempts(trace, "detach") <= 1
    /\ CleanupReturned =>
         Attempts(trace, "detach") =
            (IF self.usingLoop /\ Succeeded(trace, "unmount") THEN 1 ELSE 0)

C2_Witness ==
    /\ CleanupReturned /\ self.usingLoop /\ Succeeded(trace, "unmount")
    /\ Attempts(trace, "detach") = 1

(***************************************************************************)
(* C3.  As claimed: a Cleanup call attempts the unmount exactly once if    *)
(* the preceding Run reached its mount call and does not attempt it if no  *)
(* mount was reached.  Refuted: Cleanup unmounts unconditionally.          *)
(***************************************************************************)
C3_UnmountIffMountReached ==
    CleanupReturned =>
        Attempts(trace, "unmount") = (IF mountReached THEN 1 ELSE 0)

\* C3, amended: every Cleanup call attempts the unmount exactly once, as its
\* first step, whether or not a mount was reached by the preceding Run.
C3_UnmountAlwaysOnce ==
    /\ InCleanup => Attempts(trace, "unmount") <= 1
    /\ CleanupReturned =>
         /\ Attempts(trace, "unmount") = 1
         /\ trace[1][1] = "unmount"

C3_Witness ==
    /\ CleanupReturned /\ ~mountReached /\ runs >= 1
    /\ Attempts(trace, "unmount") = 1

(***************************************************************************)
(* C4.  In Run the exclusive lock is held during the whole mount call: it  *)
(* is held, on the open descriptor, when the mount starts and still when   *)
(* the mount has returned and Run has not; and once Run has returned, the  *)
(* descriptor is closed (the lock gone) on every exit path that had opened *)
(* the device: lock failure, format failure, mount failure and success.    *)
(***************************************************************************)
C4_LockAcrossMountAndReleased ==
    /\ pc = "run_mount" => (lockHeld /\ fd = "open")
    /\ (pc = "run_defer" /\ mountReached) => (lockHeld /\ fd = "open")
    /\ (RunReturned /\ Succeeded(trace, "open")) =>
         /\ fd = "closed" /\ ~lockHeld
         /\ Attempts(trace, "close") = 1
         /\ \A k \in Positions(trace, "mount") :
              \A c \in Positions(trace, "close") : k < c
         /\ \A k \in Positions(trace, "flock") :
              \A m \in Positions(trace, "mount") : k < m

C4_Witness ==
    /\ RunReturned /\ Failed(trace, "mount")
    /\ fd = "closed" /\ ~lockHeld

(***************************************************************************)
(* C5.  After a successful detach, Cleanup returns no error if and only if *)
(* at least one of its at most 60 removal attempts succeeds; no removal is *)
(* attempted after the first successful one; and a removal error is        *)
(* returned only when all 60 attempts failed.                              *)
(***************************************************************************)
C5_RemovalSucceedsIffOneAttemptDoes ==
    /\ InCleanup =>
         /\ Attempts(trace, "remove") <= MaxRemoveAttempts
         /\ \A k \in Positions(trace, "remove") :
              trace[k][2] = OK => \A j \in Positions(trace, "remove") : j <= k
    /\ (CleanupReturned /\ Succeeded(trace, "detach")) =>
         /\ (ret = Nil) <=> Succeeded(trace, "remove")
         /\ (ret # Nil) =>
              /\ ret = "remove failed"
              /\ AttemptsWith(trace, "remove", FAIL) = MaxRemoveAttempts

C5_Witness ==
    /\ CleanupReturned /\ Succeeded(trace, "detach") /\ ret = Nil
    /\ AttemptsWith(trace, "remove", FAIL) = MaxRemoveAttempts - 1
    /\ AttemptsWith(trace, "remove", OK) = 1

(***************************************************************************)
(* C6.  The removal retry loop always terminates, and when every removal   *)
(* attempt fails Cleanup makes exactly 60 attempts, sleeps at most 60      *)
(* times, logs one non-fatal message per failed attempt and then returns   *)
(* the removal error.                                                      *)
(***************************************************************************)
WaitingMessage == "Loop dev couldn't remove %s, waiting"

C6_ExhaustedRetries ==
    /\ t <= MaxRemoveAttempts
    /\ pc = "cl_remove" => (t < MaxRemoveAttempts /\ Attempts(trace, "remove") = t)
    /\ InCleanup =>
         /\ Attempts(trace, "sleep") <= MaxRemoveAttempts
         /\ AttemptsWith(trace, "log", WaitingMessage)
               = AttemptsWith(trace, "remove", FAIL)
    /\ (CleanupReturned /\ Succeeded(trace, "detach")
                        /\ ~Succeeded(trace, "remove")) =>
         /\ Attempts(trace, "remove") = MaxRemoveAttempts
         /\ ret = "remove failed"
         /\ trace[Len(trace)] = <<"return", "remove failed">>

\* C6: under the fair specification, an entered retry loop is left and
\* Cleanup returns
C6_RetryLoopTerminates ==
    /\ []C6_ExhaustedRetries
    /\ (pc = "cl_remove") ~> CleanupReturned

C6_Witness ==
    /\ CleanupReturned /\ Succeeded(trace, "detach")
    /\ AttemptsWith(trace, "remove", FAIL) = MaxRemoveAttempts
    /\ Attempts(trace, "sleep") = MaxRemoveAttempts
    /\ ret = "remove failed"

(***************************************************************************)
(* C7.  Cleanup does not swallow failures: it returns an error whenever    *)
(* the unmount fails, the detach fails or all removal attempts fail, each  *)
(* after logging a warning; it returns nil only when the unmount succeeded *)
(* and, if a loop device is owned, the detach and one removal succeeded.   *)
(***************************************************************************)
WarningMessages ==
    { "Warning: Failed to get unmount %s: %s",
      "Unmount failure can cause images being incomplete!",
      "WARNING: Failed to detach loop device: %s",
      "WARNING: Failed to remove loop device: %s" }

\* the last thing before the return is a warning
WarnedBeforeReturn(tr) ==
    /\ Len(tr) >= 2
    /\ tr[Len(tr)][1] = "return"
    /\ tr[Len(tr) - 1][1] = "log"
    /\ tr[Len(tr) - 1][2] \in WarningMessages

CleanupFailed(tr) ==
    \/ Failed(tr, "unmount")
    \/ Failed(tr, "detach")
    \/ (Succeeded(tr, "detach") /\ ~Succeeded(tr, "remove"))

C7_CleanupReportsFailures ==
    CleanupReturned =>
        /\ CleanupFailed(trace) => (ret # Nil /\ WarnedBeforeReturn(trace))
        /\ ret = Nil =>
             /\ Succeeded(trace, "unmount")
             /\ self.usingLoop =>
                  (Succeeded(trace, "detach")
                     /\ AttemptsWith(trace, "remove", OK) = 1)

C7_Witness ==
    /\ CleanupReturned /\ Failed(trace, "detach")
    /\ ret = "detach failed" /\ WarnedBeforeReturn(trace)

(***************************************************************************)
(* C8.  As claimed: every Cleanup execution that returns an error has      *)
(* logged, before returning, the warning that the image may be incomplete. *)
(* Refuted: only the unmount failure logs it.                              *)
(***************************************************************************)
C8_EveryErrorWarnsIncomplete ==
    (CleanupReturned /\ ret # Nil) => Logged(trace, IncompleteWarning)

\* C8, amended: every Cleanup execution that returns an error from an unmount
\* failure has logged, before returning, the warning that the image may be
\* incomplete; one that returns an error from a detach failure or from
\* exhausted removal retries has logged a warning that names that failure,
\* and not the incomplete-image warning.
C8_UnmountErrorWarnsIncomplete ==
    (CleanupReturned /\ ret # Nil) =>
        /\ WarnedBeforeReturn(trace)
        /\ Failed(trace, "unmount") =>
             /\ ret = "unmount failed"
             /\ Logged(trace, IncompleteWarning)
        /\ ~Failed(trace, "unmount") =>
             /\ ~Logged(trace, IncompleteWarning)
             /\ \/ ret = "detach failed"
                     /\ Logged(trace, "WARNING: Failed to detach loop device: %s")
                \/ ret = "remove failed"
                     /\ Logged(trace, "WARNING: Failed to remove loop device: %s")

C8_Witness ==
    /\ CleanupReturned /\ ret = "unmount failed" /\ mountReached
    /\ trace[Len(trace) - 1] = <<"log", IncompleteWarning>>

(***************************************************************************)
(* C9.  As claimed: in Run a failure of any step (open, lock, format,      *)
(* resolve the device path, create the mount directory, mount) makes Run   *)
(* return an error without executing any later step, and no step is        *)
(* attempted twice.  Refuted: the errors of the path resolution and of the *)
(* directory creation are dropped and Run goes on to the mount.            *)
(***************************************************************************)
RunSteps == << "open", "flock", "format", "evalsymlinks", "mkdir", "mount" >>

\* the step RunSteps[n] failed in tr: nothing of RunSteps follows it and tr
\* ends with the return of an error
AbortsAt(tr, n) ==
    Failed(tr, RunSteps[n]) =>
        /\ \A m \in (n + 1)..Len(RunSteps) : Attempts(tr, RunSteps[m]) = 0
        /\ tr[Len(tr)][1] = "return" /\ tr[Len(tr)][2] # Nil

AtMostOnceEach(tr) ==
    \A n \in 1..Len(RunSteps) : Attempts(tr, RunSteps[n]) <= 1

C9_AnyFailureAborts ==
    /\ InRun => AtMostOnceEach(trace)
    /\ RunReturned => \A n \in 1..Len(RunSteps) : AbortsAt(trace, n)

\* C9, amended: in Run a failure of open, lock, format or mount makes Run
\* return an error without executing any later step; a failure to resolve
\* the device path or to create the mount directory is ignored and Run goes
\* on to the mount call; every step is attempted at most once per Run.
CheckedSteps == {1, 2, 3, 6}

C9_CheckedFailureAborts ==
    /\ InRun => AtMostOnceEach(trace)
    /\ RunReturned =>
         /\ \A n \in CheckedSteps : AbortsAt(trace, n)
         /\ (ret # Nil) <=> (\E n \in CheckedSteps : Failed(trace, RunSteps[n]))
         /\ (Failed(trace, "evalsymlinks") \/ Failed(trace, "mkdir")) =>
              Attempts(trace, "mount") = 1

C9_Witness ==
    /\ RunReturned /\ Failed(trace, "format") /\ ret = "format failed"
    /\ Attempts(trace, "evalsymlinks") = 0 /\ Attempts(trace, "mount") = 0

(***************************************************************************)
(* C10.  After the delegated preparation (PreMachine) the action does not  *)
(* own the device: in any later sequence of Run and Cleanup calls, Cleanup *)
(* never attempts to detach or remove a loop device, whatever the outcome  *)
(* of the unmount.                                                         *)
(***************************************************************************)
\* the delegated preparation has run and succeeded
PreparedByMachine == mode = "delegated" /\ phase = "ready"

C10_DelegatedNeverReleases ==
    PreparedByMachine =>
        /\ ~obj.usingLoop
        /\ loop = "none"
        /\ pc \notin {"cl_detach", "cl_remove", "cl_after"}
        /\ InCleanup =>
             (Attempts(trace, "detach") = 0 /\ Attempts(trace, "remove") = 0)
        /\ (CleanupReturned /\ Succeeded(trace, "unmount")) => ret = Nil

C10_Witness ==
    /\ PreparedByMachine /\ CleanupReturned /\ Succeeded(trace, "unmount")
    /\ cleanups = MaxCleanups

(***************************************************************************)
(* C11.  When PreMachine succeeds, the shared context's image device path  *)
(* is the path CreateImage returned and the argument list is the previous  *)
(* list with exactly "--internal-image" and that path appended, in this    *)
(* order; when the size parsing or CreateImage fails, PreMachine returns   *)
(* an error and leaves the shared context and the argument list unchanged. *)
(***************************************************************************)
\* one step of PreMachine, from the state before it to the state after it
C11_PreMachineStep ==
    handler' = "PreMachine" =>
        /\ pc' # "idle" => (context' = context /\ args' = args)
        /\ (pc' = "idle" /\ ret' = Nil) =>
             \E image \in MachineImagePaths :
                /\ trace'[Len(trace') - 1] = <<"image", image>>
                /\ context' = [context EXCEPT !.Image = image]
                /\ context'.Image = image
                /\ Len(args') = Len(args) + 2
                /\ SubSeq(args', 1, Len(args)) = args
                /\ args'[Len(args) + 1] = "--internal-image"
                /\ args'[Len(args) + 2] = image
        /\ (pc' = "idle" /\ ret' # Nil) => (context' = context /\ args' = args)
        /\ pc' = "idle" =>
             ((ret' # Nil) <=> (Failed(trace', "parse") \/ Failed(trace', "createimage")))

C11_PreMachineRecordsImage == [][C11_PreMachineStep]_vars

C11_Witness ==
    /\ handler = "PreMachine" /\ pc = "idle" /\ ret = Nil
    /\ context.Image = "/dev/disk/by-id/virtio-fakedisk-1"
    /\ args = << "debos", "--internal-image", "/dev/disk/by-id/virtio-fakedisk-1" >>

(***************************************************************************)
(* C12.  When the filesystem type is "none", Run never invokes an external *)
(* formatting command, whatever the label and the device path; for every   *)
(* other type exactly one formatting command is invoked per Run that       *)
(* reaches the format step.                                                *)
(***************************************************************************)
\* Run has executed its format step (the call of formatFile has returned)
PastFormatStep ==
    InRun /\ Succeeded(trace, "flock") /\ pc # "run_format"

C12_NoneNeverFormats ==
    /\ InRun => Attempts(trace, "format") <= 1
    /\ obj.FS = "none" =>
         /\ fmtCmd = << >>
         /\ InRun => Attempts(trace, "format") = 0
    /\ (PastFormatStep /\ obj.FS # "none") =>
         (Attempts(trace, "format") = 1 /\ fmtCmd # << >>)

C12_Witness ==
    /\ RunReturned /\ obj.FS = "none" /\ PastFormatStep
    /\ Attempts(trace, "mount") = 1 /\ fmtCmd = << >>

(***************************************************************************)
(* C13.  For every filesystem type the formatting command is the one the   *)
(* dispatch table prescribes (vfat: mkfs.vfat -F32 -n label; btrfs:        *)
(* mkfs.btrfs -L label -f; hfs: mkfs.hfs -h -v label; hfsplus:             *)
(* mkfs.hfsplus -v label; hfsx: mkfs.hfsplus -s -v label; any other string *)
(* t: mkfs.t -L label), always followed by the image device path of the    *)
(* shared context as the last argument.                                    *)
(***************************************************************************)
\* the table of the claim, for the types of FSTypes
PrescribedCommand(fs, label) ==
    CASE fs = "vfat"    -> << "mkfs.vfat", "-F32", "-n", label >>
      [] fs = "btrfs"   -> << "mkfs.btrfs", "-L", label, "-f" >>
      [] fs = "hfs"     -> << "mkfs.hfs", "-h", "-v", label >>
      [] fs = "hfsplus" -> << "mkfs.hfsplus", "-v", label >>
      [] fs = "hfsx"    -> << "mkfs.hfsplus", "-s", "-v", label >>
      [] fs = "ext4"    -> << "mkfs.ext4", "-L", label >>

C13_CommandFollowsTable ==
    /\ (InRun /\ Attempts(trace, "format") = 1) => fmtCmd # << >>
    /\ fmtCmd # << >> =>
         /\ obj.FS # "none"
         /\ fmtCmd = PrescribedCommand(obj.FS, "debian") \o << context.Image >>
         /\ fmtCmd[Len(fmtCmd)] \in {"/dev/loop0"} \cup MachineImagePaths

C13_Witness ==
    /\ RunReturned /\ Succeeded(trace, "format")
    /\ fmtCmd = << "mkfs.hfsplus", "-s", "-v", "debian", "/dev/loop0" >>

(***************************************************************************)
(* C14.  Image allocation in PreNoMachine is idempotent with respect to    *)
(* the file size: after each successful allocation with size s the backing *)
(* file has exactly s bytes, whatever its prior size (absent, smaller,     *)
(* equal or larger), so allocating again with the same arguments gives the *)
(* same file size as allocating once.                                      *)
(***************************************************************************)
\* the byte count of the configured size: "1KB" is 1000, "2KB" is 2000
ConfiguredBytes ==
    CASE obj.ImageSize = "1KB" -> 1000
      [] obj.ImageSize = "2KB" -> 2000
      [] OTHER -> -1

\* the allocation (open, truncate, close) of PreNoMachine has succeeded
Allocated ==
    mode = "direct" /\ (pc = "pnm_attach" \/ phase = "ready"
                          \/ (handler = "PreNoMachine" /\ Succeeded(trace, "truncate")))

C14_AllocationExactSize ==
    /\ Allocated => (fileSize = ConfiguredBytes /\ fileSize = obj.size /\ fileSize >= 0)
    /\ (handler = "PreNoMachine" /\ pc = "pnm_truncate") => fileSize >= 0
    /\ ~Allocated => fileSize \in (PriorFileSizes \cup {0})

C14_Witness ==
    /\ handler = "PreNoMachine" /\ pc = "idle" /\ Succeeded(trace, "truncate")
    /\ Failed(trace, "attach")
    /\ obj.ImageSize = "1KB" /\ fileSize = 1000

(***************************************************************************)
(* C15.  Over any sequence of preparation, Run and Cleanup, with arbitrary *)
(* outcomes of the operating-system steps, the lifecycle only advances in  *)
(* order: Run and Cleanup work on a prepared device, the mount is          *)
(* attempted only after the format step succeeded (or was skipped for type *)
(* none), the detach only after the unmount succeeded, and a removal only  *)
(* after the detach succeeded.                                             *)
(***************************************************************************)
\* in tr, every attempt of op comes after a successful attempt of prev
OnlyAfterSuccess(tr, op, prev) ==
    \A k \in Positions(tr, op) : \E j \in 1..(k - 1) : tr[j] = <<prev, OK>>

C15_LifecycleOrder ==
    /\ (InRun \/ InCleanup) =>
         (phase = "ready" /\ context.Image \in ({LoopPath} \cup MachineImagePaths))
    /\ InRun =>
         /\ IF obj.FS = "none"
            THEN Attempts(trace, "format") = 0
            ELSE OnlyAfterSuccess(trace, "mount", "format")
         /\ OnlyAfterSuccess(trace, "mount", "flock")
         /\ pc = "run_mount" => (obj.FS = "none" \/ Succeeded(trace, "format"))
    /\ InCleanup =>
         /\ OnlyAfterSuccess(trace, "detach", "unmount")
         /\ OnlyAfterSuccess(trace, "remove", "detach")
         /\ pc = "cl_detach" => Succeeded(trace, "unmount")
         /\ pc = "cl_remove" => Succeeded(trace, "detach")
    /\ loop = "removed" => (InCleanup /\ Succeeded(trace, "unmount")) \/ cleanups >= 1
    /\ mountDepth > 0 => runs >= 1

C15_Witness ==
    /\ CleanupReturned /\ ret = Nil /\ loop = "removed" /\ mountDepth = 0
    /\ Succeeded(trace, "unmount") /\ Succeeded(trace, "detach")
    /\ Succeeded(trace, "remove") /\ obj.FS = "ext4"

(***************************************************************************)
(* C16.  In Cleanup a detach failure is reported immediately: the detach   *)
(* is attempted exactly once, it is not retried, no removal attempt and no *)
(* delay follows it, and Cleanup returns the detach error.                 *)
(***************************************************************************)
C16_DetachFailureImmediate ==
    (InCleanup /\ Failed(trace, "detach")) =>
        /\ Attempts(trace, "detach") = 1
        /\ Attempts(trace, "remove") = 0
        /\ Attempts(trace, "sleep") = 0
        /\ pc = "idle"
        /\ ret = "detach failed"
        /\ Len(trace) = 4
        /\ trace[2] = <<"detach", FAIL>>
        /\ trace[3] = <<"log", "WARNING: Failed to detach loop device: %s">>
        /\ trace[4] = <<"return", "detach failed">>

C16_Witness ==
    /\ CleanupReturned /\ Failed(trace, "detach") /\ ret = "detach failed"
    /\ loop = "attached" /\ self.usingLoop

(***************************************************************************)
(* C17.  The direct preparation (PreNoMachine) runs parse size, create     *)
(* file, resize file, attach loop device in this order and stops at the    *)
(* first failing step; the action owns a loop device (usingLoop) and the   *)
(* shared context's image device path is the loop device path if and only  *)
(* if all four steps succeeded, and on any failure usingLoop and the       *)
(* context's image device path are left as they were.                      *)
(***************************************************************************)
PnmSteps == << "parse", "openfile", "truncate", "attach" >>

\* tr is a prefix of the four steps in order, all but the last successful
InOrderUntilFailure(tr) ==
    /\ \A n \in 1..Len(PnmSteps) : Attempts(tr, PnmSteps[n]) <= 1
    /\ \A n \in 2..Len(PnmSteps) :
         OnlyAfterSuccess(tr, PnmSteps[n], PnmSteps[n - 1])
    /\ \A n \in 1..Len(PnmSteps) :
         Failed(tr, PnmSteps[n]) =>
            /\ \A m \in (n + 1)..Len(PnmSteps) : Attempts(tr, PnmSteps[m]) = 0
            /\ tr[Len(tr)][1] = "return" /\ tr[Len(tr)][2] # Nil

AllFourSucceeded(tr) == \A n \in 1..Len(PnmSteps) : Succeeded(tr, PnmSteps[n])

C17_DirectPreparation ==
    /\ obj.usingLoop <=> (mode = "direct" /\ phase = "ready")
    /\ mode = "direct" =>
         /\ obj.usingLoop <=> context.Image = LoopPath
         /\ ~obj.usingLoop => (context.Image = "" /\ obj.loopDev = NoDevice)
    /\ handler = "PreNoMachine" =>
         /\ InOrderUntilFailure(trace)
         /\ obj.usingLoop <=> AllFourSucceeded(trace)
         /\ pc = "idle" => ((ret = Nil) <=> AllFourSucceeded(trace))
         /\ (pc = "idle" /\ ret = Nil) => loop = "attached"

C17_Witness ==
    /\ handler = "PreNoMachine" /\ pc = "idle" /\ ret = Nil
    /\ AllFourSucceeded(trace)
    /\ obj.usingLoop /\ context.Image = "/dev/loop0"

(***************************************************************************)
(* C18.  The configuration fields of the action (image name, size string,  *)
(* filesystem type, filesystem label) are never mutated: after any         *)
(* sequence of PreNoMachine, PreMachine, Run (its format step included)    *)
(* and Cleanup, the values the caller observes on the action are the ones  *)
(* supplied at construction.                                               *)
(***************************************************************************)
Configuration(o) == << o.ImageName, o.ImageSize, o.FS, o.FSName >>

C18_ConfigurationKept == [][Configuration(obj') = Configuration(obj)]_vars

C18_Witness ==
    /\ CleanupReturned /\ obj.FS = "hfsx" /\ runs = MaxRuns
    /\ fmtCmd # << >> /\ mountCall # << >>
    /\ obj.usingLoop /\ obj.size = 2000

(***************************************************************************)
(* C19.  In Run the exclusive lock is acquired exactly once and before the *)
(* format step: the formatting command is only ever invoked while Run      *)
(* holds the exclusive lock on the image device, and neither format nor    *)
(* mount is attempted when the device cannot be opened or the lock cannot  *)
(* be obtained.                                                            *)
(***************************************************************************)
C19_FormatUnderLock ==
    /\ pc = "run_format" => (lockHeld /\ fd = "open" /\ Succeeded(trace, "flock"))
    /\ InRun =>
         /\ Attempts(trace, "flock") <= 1
         /\ OnlyAfterSuccess(trace, "flock", "open")
         /\ OnlyAfterSuccess(trace, "format", "flock")
         /\ \A k \in Positions(trace, "format") :
              \A c \in Positions(trace, "close") : k < c
         /\ (Failed(trace, "open") \/ Failed(trace, "flock")) =>
              /\ Attempts(trace, "format") = 0
              /\ Attempts(trace, "mount") = 0
              /\ pc = "idle" => ret # Nil
         /\ Attempts(trace, "mount") >= 1 => AttemptsWith(trace, "flock", OK) = 1

C19_Witness ==
    /\ RunReturned /\ Failed(trace, "flock") /\ ret = "flock failed"
    /\ Attempts(trace, "format") = 0 /\ Attempts(trace, "mount") = 0
    /\ obj.FS = "vfat" /\ fd = "closed"

(***************************************************************************)
(* C20.  Run writes the mount directory (the scratch directory joined with *)
(* "mnt") into the shared context before it attempts the mount, so the     *)
(* value is there after every Run that passed the format step, whether the *)
(* mount succeeded or failed; Run never changes the shared context's image *)
(* device path, and Cleanup changes no field of the shared context.        *)
(***************************************************************************)
\* Run got past its format step: the command succeeded, or there was none
FormatPassed ==
    InRun /\ Succeeded(trace, "flock") /\ pc # "run_format"
          /\ (obj.FS = "none" \/ Succeeded(trace, "format"))

C20_MountDirRecorded ==
    /\ (pc = "run_mount" \/ (InRun /\ Attempts(trace, "mount") >= 1)) =>
         context.ImageMntDir = "/scratch/mnt"
    /\ (InRun /\ Attempts(trace, "mount") >= 1) => mountCall[2] = "/scratch/mnt"
    /\ (RunReturned /\ FormatPassed) =>
         (context.ImageMntDir = "/scratch/mnt" /\ Attempts(trace, "mount") = 1)

C20_ContextStep ==
    /\ handler' = "Run" =>
         (context'.Image = context.Image /\ context'.Scratchdir = context.Scratchdir)
    /\ handler' = "Cleanup" => context' = context

C20_SharedContextWrites == []C20_MountDirRecorded /\ [][C20_ContextStep]_vars

C20_Witness ==
    /\ RunReturned /\ FormatPassed /\ Failed(trace, "mount")
    /\ context.ImageMntDir = "/scratch/mnt" /\ runs = 1

=============================================================================
